---- MODULE Spec2Model ----
(***************************************************************************)
(* A model of the macau crate: the Pile of cards with its lazy reshuffle   *)
(* (cards/pile.rs), the Card encoding (cards.rs), the sorted Hand          *)
(* (cards/hand.rs), the variant's card classification (macau/variant.rs)   *)
(* and the game setup of MacauGame::new (macau/mod.rs).                    *)
(*                                                                         *)
(* Sequences are 1-based here and 0-based in the source: the source's      *)
(* index i is the model's index i + 1.                                     *)
(***************************************************************************)
EXTENDS Integers, Sequences, FiniteSets, Bags, TLC

VARIABLES
    cards,       \* Pile.cards: Vec<Card>
    accessible,  \* Pile.accessible: usize
    hand,        \* the Hand<SortedCard> of the HasHand that deal_to deals to
    op,          \* the operation that produced this state
    arg,         \* the cards that operation was given
    ret,         \* what that operation returned
    pre,         \* cards, accessible and hand as they were when it was called
    source,      \* which of the two files defining MacauGame::new is running
    variant,     \* MacauGame.variant: MacauVariant
    players,     \* MacauGame.players: Vec<MacauPlayer>
    subscribers, \* EventManager.subscribers: Vec<(u32, handler)>
    delivered,   \* the events the latest notify call called the handlers with, in order
    loop,        \* the position of the dealing loops of MacauGame::new
    top_card,    \* the local top_card of MacauGame::new
    pc,          \* where MacauGame::new stands
    gen          \* the call of generate_n_decks or generate_deck: inputs and result

pileVars == <<cards, accessible, hand, op, arg, ret, pre>>

gameVars == <<source, variant, players, subscribers, delivered, loop, top_card, pc>>

deckVars == <<gen>>

vars == <<cards, accessible, hand, op, arg, ret, pre,
          source, variant, players, subscribers, delivered, loop, top_card, pc, gen>>

----------------------------------------------------------------------------
(* Bounds of the model. *)

\* the Pile operations that add cards are taken while the pile holds fewer
MaxPile == 3
\* deal_to is taken while the receiving hand holds fewer cards than this
MaxHand == 2
\* how many different cards of pile_test (a, b, c, ...) the inputs draw from
NumCards == 2
\* add_cards is given at most this many cards
MaxAdd == 2
\* MacauGame::new is given at most this many player names
MaxPlayers == 2
\* MacauVariant.initial_hand (a u8) is at most this
MaxInitialHand == 3
\* rand::random() draws a player's id (a u32) from this many values
NumIds == 2

----------------------------------------------------------------------------
(* cards.rs: Suit, Rank, JokerColor and the u8 encoding of Card. *)

Spades == 0
Hearts == 1
Diamonds == 2
Clubs == 3

Ace == 1
Two == 2
Three == 3
Four == 4
Five == 5
Six == 6
Seven == 7
Eight == 8
Nine == 9
Ten == 10
Jack == 11
Queen == 12
King == 13

Red == 1
Black == 2
White == 3

\* Card::new: ((suit as u8) << 4) | (rank as u8)
NewCard(suit, rank) == suit * 16 + rank

\* Card::new_joker: ((color as u8) << 4) | 0b1111
NewJoker(color) == color * 16 + 15

\* Card::is_standard_card: (self.0 & 0b1111) <= (Rank::King as u8)
IsStandardCard(c) == (c % 16) <= King

\* Card::is_joker: (self.0 & 0b1111) == 0b1111
IsJoker(c) == (c % 16) = 15

\* Option<T>
None == <<"None">>
Some(x) == <<"Some", x>>

\* Suit::try_from(u8).ok()
SuitTryFrom(v) == IF v \in 0..3 THEN Some(v) ELSE None

\* Rank::try_from(u8).ok()
RankTryFrom(v) == IF v \in Ace..King THEN Some(v) ELSE None

\* JokerColor::try_from(u8).ok()
JokerColorTryFrom(v) == IF v \in 1..3 THEN Some(v) ELSE None

\* Card::suit
CardSuit(c) == IF IsStandardCard(c) THEN SuitTryFrom(c \div 16) ELSE None

\* Card::rank
CardRank(c) == IF IsStandardCard(c) THEN RankTryFrom(c % 16) ELSE None

\* Card::joker_color
CardJokerColor(c) == IF IsJoker(c) THEN JokerColorTryFrom(c \div 16) ELSE None

----------------------------------------------------------------------------
(* cards/hand.rs: SortedCard's order and the sorted Hand. *)

\* u8::cmp / Rank::cmp
CmpInt(x, y) == IF x < y THEN "Less" ELSE IF x > y THEN "Greater" ELSE "Equal"

\* impl Ord for SortedCard: cmp
SortedCardCmp(a, b) ==
    IF a = b THEN "Equal"
    ELSE IF IsJoker(a) /\ IsJoker(b)
        THEN CmpInt(CardJokerColor(a)[2], CardJokerColor(b)[2])
    ELSE IF IsJoker(a) THEN "Greater"
    ELSE IF IsJoker(b) THEN "Less"
    ELSE LET self_suit == CardSuit(a)[2]
             other_suit == CardSuit(b)[2]
             self_rank == CardRank(a)[2]
             other_rank == CardRank(b)[2]
         IN  IF self_suit = other_suit
                 THEN CmpInt(self_rank, other_rank)
                 ELSE CmpInt(self_suit, other_suit)

\* add_card that puts the card in the place of the hand's cards
HandAddCardAlone(h, card) == <<card>>

\* Hand::add_card: SortedVec::insert keeps the vector sorted by T's order
HandAddCard(h, card) ==
    LET before == SelectSeq(h, LAMBDA x : SortedCardCmp(x, card) # "Greater")
        after == SelectSeq(h, LAMBDA x : SortedCardCmp(x, card) = "Greater")
    IN  before \o <<card>> \o after

\* HasHand::deal
Deal(h, card) == HandAddCard(h, card)

----------------------------------------------------------------------------
(* cards/pile.rs: Pile. *)

\* the cards of a sequence, with how often each occurs
BagOf(s) == [c \in {s[i] : i \in 1..Len(s)} |-> Cardinality({i \in 1..Len(s) : s[i] = c})]

\* Vec::swap(a, b), with the source's 0-based indices
VecSwap(s, a, b) == [s EXCEPT ![a + 1] = s[b + 1], ![b + 1] = s[a + 1]]

\* Vec::swap_remove(index), 0-based: the last element takes the removed one's
\* place; the pair of the new vector and the removed element
VecSwapRemove(s, index) ==
    LET last == Len(s) - 1
        moved == [s EXCEPT ![index + 1] = s[last + 1]]
    IN  <<SubSeq(moved, 1, last), s[index + 1]>>

\* every order SliceRandom::shuffle can leave the vector in
ShuffledOrders(s) ==
    {t \in [1..Len(s) -> {s[i] : i \in 1..Len(s)}] : BagOf(t) = BagOf(s)}

\* a Pile value
PileOf(cs, acc) == [cards |-> cs, accessible |-> acc]

\* Pile::new_empty
PileNewEmpty == PileOf(<<>>, 0)

\* Pile::with_capacity
PileWithCapacity(capacity) == PileOf(<<>>, 0)

\* Pile::of with every card accessible from the start
PileOfCardsAllAccessible(cs) == PileOf(cs, Len(cs))

\* Pile::of
PileOfCards(cs) == PileOf(cs, 0)

\* add_card that inserts the card at the front of the vector
AddCardAtFront(p, card) == PileOf(<<card>> \o p.cards, p.accessible)

\* Pile::add_card
AddCard(p, card) == PileOf(Append(p.cards, card), p.accessible)

\* add_cards that stops after the first card
AddCardsFirstOnly(p, cs) ==
    PileOf(IF cs = <<>> THEN p.cards ELSE Append(p.cards, cs[1]), p.accessible)

\* Pile::add_cards
AddCards(p, cs) == PileOf(p.cards \o cs, p.accessible)

\* add_on_top that pushes and advances accessible but forgets the swap
AddOnTopNoSwap(p, card) == PileOf(Append(p.cards, card), p.accessible + 1)

\* add_on_top that swaps but forgets to advance accessible
AddOnTopNoAdvance(p, card) ==
    LET pushed == Append(p.cards, card)
        last == Len(pushed) - 1
    IN  PileOf(VecSwap(pushed, p.accessible, last), p.accessible)

\* Pile::add_on_top
AddOnTop(p, card) ==
    LET pushed == Append(p.cards, card)
        last == Len(pushed) - 1
    IN  PileOf(VecSwap(pushed, p.accessible, last), p.accessible + 1)

\* Pile::shuffle: every pile it can leave
Shuffle(p) == {PileOf(t, Len(p.cards)) : t \in ShuffledOrders(p.cards)}

\* the shuffle pop and seek do first: if self.accessible <= 0 { self.shuffle(); }
ShuffleIfNoneAccessible(p) == IF p.accessible <= 0 THEN Shuffle(p) ELSE {p}

\* pop that removes the boundary card but forgets self.accessible -= 1
PopKeepsAccessible(p) ==
    IF p.cards = <<>> THEN {<<p, None>>}
    ELSE {LET removed == VecSwapRemove(q.cards, q.accessible - 1)
          IN  <<PileOf(removed[1], q.accessible), Some(removed[2])>> :
            q \in ShuffleIfNoneAccessible(p)}

\* pop that takes the last card of the vector (Vec::pop) instead of the boundary card
PopFromEnd(p) ==
    IF p.cards = <<>> THEN {<<p, None>>}
    ELSE {<<PileOf(SubSeq(q.cards, 1, Len(q.cards) - 1), q.accessible - 1),
            Some(q.cards[Len(q.cards)])>> :
            q \in ShuffleIfNoneAccessible(p)}

\* pop that gives up, as try_seek does, when no card is accessible
PopNoShuffle(p) ==
    IF p.cards = <<>> \/ p.accessible <= 0 THEN {<<p, None>>}
    ELSE {LET acc == p.accessible - 1
              removed == VecSwapRemove(p.cards, acc)
          IN  <<PileOf(removed[1], acc), Some(removed[2])>>}

\* Pile::pop: every (pile, returned value) it can end with
Pop(p) ==
    IF p.cards = <<>> THEN {<<p, None>>}
    ELSE {LET acc == q.accessible - 1
              removed == VecSwapRemove(q.cards, acc)
          IN  <<PileOf(removed[1], acc), Some(removed[2])>> :
            q \in ShuffleIfNoneAccessible(p)}

\* seek that gives up, as try_seek does, when no card is accessible
SeekNoShuffle(p) ==
    IF p.cards = <<>> \/ p.accessible <= 0 THEN {<<p, None>>}
    ELSE {<<p, Some(p.cards[p.accessible - 1 + 1])>>}

\* Pile::seek: every (pile, returned value) it can end with
Seek(p) ==
    IF p.cards = <<>> THEN {<<p, None>>}
    ELSE {<<q, Some(q.cards[q.accessible - 1 + 1])>> :
            q \in ShuffleIfNoneAccessible(p)}

\* try_seek that reads the last card of the vector instead of the boundary card
TrySeekLast(p) ==
    IF p.cards = <<>> THEN None
    ELSE IF p.accessible <= 0 THEN None
    ELSE Some(p.cards[Len(p.cards)])

\* Pile::try_seek
TrySeek(p) ==
    IF p.cards = <<>> THEN None
    ELSE IF p.accessible <= 0 THEN None
    ELSE Some(p.cards[p.accessible - 1 + 1])

\* Pile::is_empty
IsEmpty(p) == p.cards = <<>>

\* Pile::count_accessible
CountAccessible(p) == p.accessible

\* Pile::count_total
CountTotal(p) == Len(p.cards)

\* Result<(), PileEmptyError>
Ok == <<"Ok">>
PileEmptyError == <<"PileEmptyError">>

\* Pile::deal_to: every (pile, hand, result) it can end with
DealTo(p, h) ==
    {IF out[2] # None
        THEN <<out[1], Deal(h, out[2][2]), Ok>>
        ELSE <<out[1], h, PileEmptyError>> :
      out \in Pop(p)}

----------------------------------------------------------------------------
(* cards/deck.rs: the generated deck. *)

\* Suit::iter: the static SUITS
SuitIter == <<Spades, Hearts, Diamonds, Clubs>>

\* Rank::iter: the static RANKS
RankIter == <<Ace, Two, Three, Four, Five, Six, Seven, Eight, Nine, Ten, Jack, Queen, King>>

\* one pass of the loop over _deck with > for >= in the tests of jokers
OneDeckOneJokerLess(jokers) ==
    [i \in 1..(Len(SuitIter) * Len(RankIter)) |->
        NewCard(SuitIter[((i - 1) \div Len(RankIter)) + 1],
                RankIter[((i - 1) % Len(RankIter)) + 1])]
    \o (IF jokers > 1
           THEN <<NewJoker(Red)>>
                \o (IF jokers > 2
                       THEN <<NewJoker(Black)>>
                            \o (IF jokers > 3 THEN <<NewJoker(White)>> ELSE <<>>)
                       ELSE <<>>)
           ELSE <<>>)

\* one pass of the loop over _deck: the suits, each with its ranks, then the jokers
OneDeck(jokers) ==
    [i \in 1..(Len(SuitIter) * Len(RankIter)) |->
        NewCard(SuitIter[((i - 1) \div Len(RankIter)) + 1],
                RankIter[((i - 1) % Len(RankIter)) + 1])]
    \o (IF jokers >= 1
           THEN <<NewJoker(Red)>>
                \o (IF jokers >= 2
                       THEN <<NewJoker(Black)>>
                            \o (IF jokers >= 3 THEN <<NewJoker(White)>> ELSE <<>>)
                       ELSE <<>>)
           ELSE <<>>)

RECURSIVE Repeated(_, _)
\* for _deck in 0..n
Repeated(n, deck) == IF n <= 0 THEN <<>> ELSE deck \o Repeated(n - 1, deck)

\* if jokers > 3, with the bound one too high
TooManyJokersAboveFour(jokers) == jokers > 4

\* if jokers > 3 { unimplemented!("Max number of jokers is 3."); }
TooManyJokers(jokers) == jokers > 3

\* generate_n_decks with the jokers pushed once, after the loop over the decks
GenerateNDecksJokersOnce(n, jokers) ==
    IF TooManyJokers(jokers)
        THEN [panicked |-> TRUE, cards |-> <<>>]
        ELSE [panicked |-> FALSE,
              cards |-> Repeated(n, OneDeck(0))
                        \o SubSeq(OneDeck(jokers), 53, Len(OneDeck(jokers)))]

\* generate_n_decks: unimplemented!() for more than three jokers, else the cards
GenerateNDecks(n, jokers) ==
    IF TooManyJokers(jokers)
        THEN [panicked |-> TRUE, cards |-> <<>>]
        ELSE [panicked |-> FALSE, cards |-> Repeated(n, OneDeck(jokers))]

\* generate_deck
GenerateDeck(jokers) == GenerateNDecks(1, jokers)

----------------------------------------------------------------------------
(* macau/variant.rs: MacauVariant. *)

\* impl Default for MacauVariant
DefaultVariant ==
    [initial_hand |-> 5,
     cumulate_war |-> TRUE,
     war_king_of_spades |-> 5,
     war_king_of_hearts |-> 5,
     war_king_of_diamonds |-> 0,
     war_king_of_clubs |-> 0,
     cumulate_blocks |-> TRUE,
     queen_of_spades_on_everything |-> TRUE,
     queen_of_hearts_on_everything |-> TRUE,
     queen_of_diamonds_on_everything |-> FALSE,
     queen_of_clubs_on_everything |-> FALSE,
     override_jack |-> TRUE,
     override_ace |-> TRUE]

\* get_war_value with the king of clubs taking the value of the king of diamonds
GetWarValueClubsAsDiamonds(v, card) ==
    LET rank == CardRank(card)
        suit == CardSuit(card)
    IN  IF rank = Some(Two) THEN 2
        ELSE IF rank = Some(Three) THEN 3
        ELSE IF rank = Some(King)
            THEN IF suit = Some(Spades) THEN v.war_king_of_spades
                 ELSE IF suit = Some(Hearts) THEN v.war_king_of_hearts
                 ELSE IF suit = Some(Diamonds) THEN v.war_king_of_diamonds
                 ELSE IF suit = Some(Clubs) THEN v.war_king_of_diamonds
                 ELSE 0
        ELSE 0

\* MacauVariant::get_war_value
GetWarValue(v, card) ==
    LET rank == CardRank(card)
        suit == CardSuit(card)
    IN  IF rank = Some(Two) THEN 2
        ELSE IF rank = Some(Three) THEN 3
        ELSE IF rank = Some(King)
            THEN IF suit = Some(Spades) THEN v.war_king_of_spades
                 ELSE IF suit = Some(Hearts) THEN v.war_king_of_hearts
                 ELSE IF suit = Some(Diamonds) THEN v.war_king_of_diamonds
                 ELSE IF suit = Some(Clubs) THEN v.war_king_of_clubs
                 ELSE 0
        ELSE 0

\* MacauVariant::is_war_card
IsWarCard(v, card) == GetWarValue(v, card) > 0

\* is_action_card with every king an action card
IsActionCardEveryKing(v, card) ==
    LET rank == CardRank(card)
        suit == CardSuit(card)
    IN  IF rank = Some(Ace) THEN TRUE
        ELSE IF rank = Some(Two) THEN TRUE
        ELSE IF rank = Some(Three) THEN TRUE
        ELSE IF rank = Some(Four) THEN TRUE
        ELSE IF rank = Some(Jack) THEN TRUE
        ELSE IF rank = Some(Queen)
            THEN IF suit = Some(Spades) THEN v.queen_of_spades_on_everything
                 ELSE IF suit = Some(Hearts) THEN v.queen_of_hearts_on_everything
                 ELSE IF suit = Some(Diamonds) THEN v.queen_of_diamonds_on_everything
                 ELSE IF suit = Some(Clubs) THEN v.queen_of_clubs_on_everything
                 ELSE FALSE
        ELSE IF rank = Some(King) THEN TRUE
        ELSE IF IsJoker(card) THEN TRUE
        ELSE FALSE

\* MacauVariant::is_action_card
IsActionCard(v, card) ==
    LET rank == CardRank(card)
        suit == CardSuit(card)
    IN  IF rank = Some(Ace) THEN TRUE
        ELSE IF rank = Some(Two) THEN TRUE
        ELSE IF rank = Some(Three) THEN TRUE
        ELSE IF rank = Some(Four) THEN TRUE
        ELSE IF rank = Some(Jack) THEN TRUE
        ELSE IF rank = Some(Queen)
            THEN IF suit = Some(Spades) THEN v.queen_of_spades_on_everything
                 ELSE IF suit = Some(Hearts) THEN v.queen_of_hearts_on_everything
                 ELSE IF suit = Some(Diamonds) THEN v.queen_of_diamonds_on_everything
                 ELSE IF suit = Some(Clubs) THEN v.queen_of_clubs_on_everything
                 ELSE FALSE
        ELSE IF rank = Some(King) THEN GetWarValue(v, card) > 0
        ELSE IF IsJoker(card) THEN TRUE
        ELSE FALSE

----------------------------------------------------------------------------
(* macau/mod.rs, macau/events.rs and macau.rs: the game and its events. *)

\* the two files that define the module macau and MacauGame::new
ModRs == "macau/mod.rs"
MacauRs == "macau.rs"

Min(S) == CHOOSE x \in S : \A y \in S : x <= y

\* MacauPlayer of macau/mod.rs, as MacauGame::new builds it
NewPlayer(id, name) == [id |-> id, name |-> name, hand |-> <<>>]

\* MacauPlayer of macau.rs, which has no id
NewPlayerNoId(name) == [name |-> name, hand |-> <<>>]

\* MacauGame::get_player_by_id: the first player with the id
GetPlayerById(ps, id) ==
    LET found == {i \in 1..Len(ps) : ps[i].id = id}
    IN  IF found = {} THEN None ELSE Some(ps[Min(found)])

\* the closure MacauGame::new gives notify_customized; get_player_by_id(id).unwrap()
\* panics when no player has the id
GameStart(ps, top, id) ==
    LET who == GetPlayerById(ps, id)
    IN  IF who = None
            THEN [panicked |-> TRUE]
            ELSE [panicked |-> FALSE,
                  event |-> [kind |-> "GameStart",
                             players |-> ps,
                             top_card |-> top,
                             your_cards |-> who[2].hand]]

\* EventManager::new
EventManagerNew == <<>>

\* EventManager::subscribe: a handler is a closure, of which the model keeps
\* whether it panics when called
Subscribe(subs, player_id, panics) ==
    Append(subs, [id |-> player_id, panics |-> panics])

\* the handlers that panic when called
PanickingHandlers(subs) == {i \in 1..Len(subs) : subs[i].panics}

\* EventManager::notify_common: the handlers are called with the event in the
\* order of subscribers; a panic of a handler unwinds out of the loop
NotifyCommon(subs, event) ==
    LET last == IF PanickingHandlers(subs) = {}
                   THEN Len(subs)
                   ELSE Min(PanickingHandlers(subs))
    IN  [panicked |-> PanickingHandlers(subs) # {},
         delivered |-> [i \in 1..last |->
                          [handler |-> i, id |-> subs[i].id, event |-> event]]]

\* EventManager::notify_customized with the GameStart closure: the handlers are
\* called in the order of subscribers, each with the event built for its id; a
\* panic of the closure or of a handler unwinds out of the loop
NotifyCustomizedGameStart(subs, ps, top) ==
    LET failing == {i \in 1..Len(subs) : GameStart(ps, top, subs[i].id).panicked}
        lastBuilt == IF failing = {} THEN Len(subs) ELSE Min(failing) - 1
        lastCalled == IF PanickingHandlers(subs) = {}
                         THEN Len(subs)
                         ELSE Min(PanickingHandlers(subs))
    IN  [panicked |-> failing # {} \/ PanickingHandlers(subs) # {},
         delivered |-> [i \in 1..Min({lastBuilt, lastCalled}) |->
                          [handler |-> i,
                           id |-> subs[i].id,
                           event |-> GameStart(ps, top, subs[i].id).event]]]

\* MacauGame::can_start_game (macau.rs)
CanStartGame(v, card) == IsStandardCard(card) /\ ~IsActionCard(v, card)

\* Pile::pop_and_return, which macau.rs calls and cards/pile.rs does not define:
\* the popped card is appended to the pile, so that it stays in the game
PopAndReturn(p) ==
    {IF out[2] = None THEN out[1] ELSE AddCard(out[1], out[2][2]) : out \in Pop(p)}

----------------------------------------------------------------------------
(* The Pile under any sequence of calls. *)

\* the cards of pile_test: a, b, c, d, e, f are the ace to six of hearts
TestCards == {NewCard(Hearts, r) : r \in Ace..(Ace + NumCards - 1)}

SeqsUpTo(S, n) == UNION {[1..k -> S] : k \in 0..n}

\* the pile this state holds
pile == PileOf(cards, accessible)

Snapshot == [cards |-> cards, accessible |-> accessible, hand |-> hand]

\* what a call leaves besides the pile and the hand
Called(name, given, returned) ==
    /\ op' = name
    /\ arg' = given
    /\ ret' = returned
    /\ pre' = Snapshot

SetPile(p) ==
    /\ cards' = p.cards
    /\ accessible' = p.accessible

Unit == <<"()">>

\* no game is being set up
NoGame ==
    /\ source = "none"
    /\ variant = DefaultVariant
    /\ players = <<>>
    /\ subscribers = EventManagerNew
    /\ delivered = <<>>
    /\ loop = [player |-> 1, dealt |-> 0]
    /\ top_card = None
    /\ pc = "none"

\* no deck is being generated
NoDeckCall == gen = [n |-> 0, jokers |-> 0, fn |-> "none",
                    out |-> [panicked |-> FALSE, cards |-> <<>>]]

Init ==
    /\ \E p \in {PileNewEmpty, PileWithCapacity(MaxPile)}
                \cup {PileOfCards(cs) : cs \in SeqsUpTo(TestCards, MaxPile)} :
            /\ cards = p.cards
            /\ accessible = p.accessible
    /\ hand = <<>>
    /\ op = "new"
    /\ arg = <<>>
    /\ ret = Unit
    /\ pre = [cards |-> cards, accessible |-> accessible, hand |-> hand]
    /\ NoGame
    /\ NoDeckCall

DoAddCard ==
    /\ Len(cards) < MaxPile
    /\ \E card \in TestCards :
        /\ SetPile(AddCard(pile, card))
        /\ Called("add_card", <<card>>, Unit)
    /\ UNCHANGED hand
    /\ UNCHANGED <<gameVars, deckVars>>

DoAddCards ==
    /\ \E cs \in SeqsUpTo(TestCards, MaxAdd) :
        /\ Len(cards) + Len(cs) <= MaxPile
        /\ SetPile(AddCards(pile, cs))
        /\ Called("add_cards", cs, Unit)
    /\ UNCHANGED hand
    /\ UNCHANGED <<gameVars, deckVars>>

DoAddOnTop ==
    /\ Len(cards) < MaxPile
    /\ \E card \in TestCards :
        /\ SetPile(AddOnTop(pile, card))
        /\ Called("add_on_top", <<card>>, Unit)
    /\ UNCHANGED hand
    /\ UNCHANGED <<gameVars, deckVars>>

DoShuffle ==
    /\ \E p \in Shuffle(pile) : SetPile(p)
    /\ Called("shuffle", <<>>, Unit)
    /\ UNCHANGED hand
    /\ UNCHANGED <<gameVars, deckVars>>

DoPop ==
    /\ \E out \in Pop(pile) :
        /\ SetPile(out[1])
        /\ Called("pop", <<>>, out[2])
    /\ UNCHANGED hand
    /\ UNCHANGED <<gameVars, deckVars>>

DoSeek ==
    /\ \E out \in Seek(pile) :
        /\ SetPile(out[1])
        /\ Called("seek", <<>>, out[2])
    /\ UNCHANGED hand
    /\ UNCHANGED <<gameVars, deckVars>>

DoTrySeek ==
    /\ Called("try_seek", <<>>, TrySeek(pile))
    /\ UNCHANGED <<cards, accessible, hand>>
    /\ UNCHANGED <<gameVars, deckVars>>

DoDealTo ==
    /\ Len(hand) < MaxHand
    /\ \E out \in DealTo(pile, hand) :
        /\ SetPile(out[1])
        /\ hand' = out[2]
        /\ Called("deal_to", <<>>, out[3])
    /\ UNCHANGED <<gameVars, deckVars>>

Next ==
    \/ DoAddCard
    \/ DoAddCards
    \/ DoAddOnTop
    \/ DoShuffle
    \/ DoPop
    \/ DoSeek
    \/ DoTrySeek
    \/ DoDealTo

Spec == Init /\ [][Next]_vars

----------------------------------------------------------------------------
(* MacauGame::new, step by step. *)

\* the cards of the generated deck that the model's game is played with: an action
\* card, a plain card, a king that is a war card, a king that is one only when the
\* variant says so, and a joker
GameCards ==
    {NewCard(Spades, Ace), NewCard(Spades, Five), NewCard(Spades, King),
     NewCard(Clubs, King), NewJoker(Red)}

\* generate_deck(3), cut down to GameCards
GameDeck == SelectSeq(GenerateDeck(3).cards, LAMBDA c : c \in GameCards)

\* the variants the game is set up with
Variants ==
    {[DefaultVariant EXCEPT !.initial_hand = h, !.war_king_of_clubs = k] :
        h \in 0..MaxInitialHand, k \in {0, 5}}

\* the names main gives, and two more
Names == <<"Alice", "Bob", "Carol", "Dave">>

\* the values of rand::random()
Ids == 0..(NumIds - 1)

\* MacauGame::new up to the construction of the game: the players with their ids
\* and empty hands, the pile of the generated deck, the new event manager
GameInit ==
    /\ source \in {ModRs, MacauRs}
    /\ variant \in Variants
    /\ \E n \in 0..MaxPlayers :
         IF source = ModRs
            THEN \E ids \in [1..n -> Ids] :
                   players = [i \in 1..n |-> NewPlayer(ids[i], Names[i])]
            ELSE players = [i \in 1..n |-> NewPlayerNoId(Names[i])]
    /\ LET p == PileOfCards(GameDeck)
       IN  /\ cards = p.cards
           /\ accessible = p.accessible
    /\ subscribers = EventManagerNew
    /\ delivered = <<>>
    /\ loop = [player |-> 1, dealt |-> 0]
    /\ top_card = None
    /\ pc = "deal"
    /\ hand = <<>>
    /\ op = "new"
    /\ arg = <<>>
    /\ ret = Unit
    /\ pre = [cards |-> cards, accessible |-> accessible, hand |-> hand]
    /\ NoDeckCall

\* for _ in 0..game.variant.initial_hand { player.deal(game.pile.pop().unwrap()); }
DealCard ==
    /\ pc = "deal"
    /\ loop.player <= Len(players)
    /\ loop.dealt < variant.initial_hand
    /\ \E out \in Pop(pile) :
        /\ SetPile(out[1])
        /\ Called("pop", <<>>, out[2])
        /\ IF out[2] = None
              THEN /\ pc' = "panicked"
                   /\ UNCHANGED <<players, loop>>
              ELSE /\ players' = [players EXCEPT ![loop.player].hand = Deal(@, out[2][2])]
                   /\ loop' = [loop EXCEPT !.dealt = @ + 1]
                   /\ pc' = "deal"
    /\ UNCHANGED <<hand, source, variant, subscribers, delivered, top_card, gen>>

\* for player in &mut game.players: the next player
NextPlayer ==
    /\ pc = "deal"
    /\ loop.player <= Len(players)
    /\ loop.dealt >= variant.initial_hand
    /\ loop' = [player |-> loop.player + 1, dealt |-> 0]
    /\ UNCHANGED pileVars
    /\ UNCHANGED <<source, variant, players, subscribers, delivered, top_card, pc, gen>>

\* macau/mod.rs: let top_card = game.pile.seek().unwrap();
SeekTopCard ==
    /\ source = ModRs
    /\ pc = "deal"
    /\ loop.player > Len(players)
    /\ \E out \in Seek(pile) :
        /\ SetPile(out[1])
        /\ Called("seek", <<>>, out[2])
        /\ IF out[2] = None
              THEN /\ pc' = "panicked"
                   /\ UNCHANGED top_card
              ELSE /\ top_card' = out[2]
                   /\ pc' = "notify"
    /\ UNCHANGED <<hand, source, variant, players, subscribers, delivered, loop, gen>>

\* macau/mod.rs: event_manager.notify_customized(&game, ...); game
NotifyGameStart ==
    /\ pc = "notify"
    /\ LET sent == NotifyCustomizedGameStart(subscribers, players, top_card[2])
       IN  /\ delivered' = sent.delivered
           /\ pc' = IF sent.panicked THEN "panicked" ELSE "returned"
    /\ UNCHANGED pileVars
    /\ UNCHANGED <<source, variant, players, subscribers, loop, top_card, gen>>

\* macau.rs: while game.requires_pop_back() { game.pile.pop_and_return(); } game
PopBack ==
    /\ source = MacauRs
    /\ pc = "deal"
    /\ loop.player > Len(players)
    /\ \E out \in Seek(pile) :
        IF out[2] = None
           THEN /\ SetPile(out[1])
                /\ Called("seek", <<>>, out[2])
                /\ pc' = "panicked"
           ELSE IF ~CanStartGame(variant, out[2][2])
           THEN /\ \E back \in PopAndReturn(out[1]) : SetPile(back)
                /\ Called("pop_and_return", <<>>, out[2])
                /\ pc' = "deal"
           ELSE /\ SetPile(out[1])
                /\ Called("seek", <<>>, out[2])
                /\ pc' = "returned"
    /\ UNCHANGED <<hand, source, variant, players, subscribers, delivered, loop, top_card, gen>>

GameNext ==
    \/ DealCard
    \/ NextPlayer
    \/ SeekTopCard
    \/ NotifyGameStart
    \/ PopBack

SpecGame == GameInit /\ [][GameNext]_vars

----------------------------------------------------------------------------
(* What the claims speak of. *)

\* the pile as it was when the last operation was called
prePile == PileOf(pre.cards, pre.accessible)

\* the accessible region [0, accessible) and the pending region [accessible, len)
AccessibleCards(p) == SubSeq(p.cards, 1, p.accessible)
PendingCards(p) == SubSeq(p.cards, p.accessible + 1, Len(p.cards))

\* the values a call of seek can return
SeekResults(p) == {out[2] : out \in Seek(p)}

\* the values a call of pop can return
PopResults(p) == {out[2] : out \in Pop(p)}

\* the bag holding one card
OneCard(c) == BagOf(<<c>>)

\* the last operation shuffled: an explicit shuffle, or the shuffle pop, seek and
\* deal_to do on a non-empty pile with no accessible card
ShuffleStep ==
    \/ op = "shuffle"
    \/ op \in {"pop", "seek", "deal_to"} /\ pre.accessible <= 0 /\ pre.cards # <<>>

----------------------------------------------------------------------------
(* C1 - C9: the Pile. *)

\* C1: after any sequence of Pile operations on a pile built by new_empty,
\* with_capacity or of(cards), 0 <= count_accessible() <= count_total().
C1_AccessibleWithinTotal ==
    /\ 0 <= CountAccessible(pile)
    /\ CountAccessible(pile) <= CountTotal(pile)

\* a pop has left a pile with both an accessible and a pending card
C1_Witness ==
    /\ op = "pop"
    /\ 0 < accessible
    /\ accessible < Len(cards)

\* C2: called with accessible = 0 and total > 0, pop returns a card and leaves
\* accessible = total - 1, and seek returns a card and leaves accessible = total,
\* total being the card count at the call.
C2_LazyReshuffle ==
    (pre.accessible = 0 /\ Len(pre.cards) > 0) =>
        /\ op = "pop" => ret # None /\ accessible = Len(pre.cards) - 1
        /\ op = "seek" => ret # None /\ accessible = Len(pre.cards)

\* a seek was called on a pile of several cards none of which was accessible
C2_Witness ==
    /\ op = "seek"
    /\ pre.accessible = 0
    /\ Len(pre.cards) > 1
    /\ ret # None

\* C3: unless the step shuffles, every pending card stays pending, the accessible
\* region gains no card but the one add_on_top is given, and the card pop, seek,
\* try_seek or deal_to hands out comes from the accessible region.
C3_OnlyShuffleRecycles ==
    (op # "new" /\ ~ShuffleStep) =>
        /\ BagOf(PendingCards(prePile)) \sqsubseteq BagOf(PendingCards(pile))
        /\ BagOf(AccessibleCards(pile)) \sqsubseteq
             (IF op = "add_on_top"
                 THEN BagOf(AccessibleCards(prePile)) (+) OneCard(arg[1])
                 ELSE BagOf(AccessibleCards(prePile)))
        /\ (op \in {"pop", "seek", "try_seek"} /\ ret # None) =>
             /\ pre.accessible > 0
             /\ ret[2] = pre.cards[pre.accessible]
        /\ (op = "pop" /\ ret # None) =>
             BagOf(AccessibleCards(prePile)) = BagOf(AccessibleCards(pile)) (+) OneCard(ret[2])
        /\ (op = "deal_to" /\ ret = Ok) =>
             /\ pre.accessible > 0
             /\ BagOf(hand) = BagOf(pre.hand) (+) OneCard(pre.cards[pre.accessible])

\* add_on_top was given a card while another card was pending at the boundary
C3_Witness ==
    /\ op = "add_on_top"
    /\ 0 < pre.accessible
    /\ pre.accessible < Len(pre.cards)
    /\ pre.cards[pre.accessible + 1] # arg[1]

\* C4: called with accessible > 0, pop returns the card seek and try_seek reported,
\* takes one from total and from accessible, and keeps the other accessible cards
\* in their order, so that seek and try_seek then report the card beneath.
C4_PopTakesTheTop ==
    (op = "pop" /\ pre.accessible > 0) =>
        /\ ret = TrySeek(prePile)
        /\ SeekResults(prePile) = {ret}
        /\ ret # None
        /\ Len(cards) = Len(pre.cards) - 1
        /\ accessible = pre.accessible - 1
        /\ AccessibleCards(pile) = SubSeq(pre.cards, 1, pre.accessible - 1)
        /\ pre.accessible > 1 =>
             /\ SeekResults(pile) = {Some(pre.cards[pre.accessible - 1])}
             /\ TrySeek(pile) = Some(pre.cards[pre.accessible - 1])

\* a pop took the top of several accessible cards, over a different card, while a
\* card was pending
C4_Witness ==
    /\ op = "pop"
    /\ pre.accessible > 1
    /\ pre.accessible < Len(pre.cards)
    /\ pre.cards[pre.accessible] # pre.cards[pre.accessible - 1]

\* C5: add_on_top(card) adds one to total and to accessible, makes the card the one
\* seek, try_seek and pop return next, keeps the accessible cards in their order
\* beneath it, and keeps every pending card pending.
C5_AddOnTop ==
    op = "add_on_top" =>
        /\ Len(cards) = Len(pre.cards) + 1
        /\ accessible = pre.accessible + 1
        /\ TrySeek(pile) = Some(arg[1])
        /\ SeekResults(pile) = {Some(arg[1])}
        /\ PopResults(pile) = {Some(arg[1])}
        /\ AccessibleCards(pile) = Append(AccessibleCards(prePile), arg[1])
        /\ BagOf(PendingCards(pile)) = BagOf(PendingCards(prePile))

\* add_on_top put a card on an accessible card while a card was pending
C5_Witness ==
    /\ op = "add_on_top"
    /\ 0 < pre.accessible
    /\ pre.accessible < Len(pre.cards)
    /\ arg[1] # pre.cards[pre.accessible]

\* C6 as claimed: add_card(card) adds one to total and leaves accessible and the
\* accessible cards as they were, so seek and try_seek return what they returned
\* before, and the added card is pending.
C6_AsClaimed ==
    op = "add_card" =>
        /\ Len(cards) = Len(pre.cards) + 1
        /\ accessible = pre.accessible
        /\ AccessibleCards(pile) = AccessibleCards(prePile)
        /\ TrySeek(pile) = TrySeek(prePile)
        /\ SeekResults(pile) = SeekResults(prePile)
        /\ PendingCards(pile) = Append(PendingCards(prePile), arg[1])

\* C6 amended: add_card(card) adds one to total and leaves accessible and the
\* accessible cards as they were; try_seek returns what it returned before, seek
\* does when a card was accessible, and the added card is pending.
C6_AddCard ==
    op = "add_card" =>
        /\ Len(cards) = Len(pre.cards) + 1
        /\ accessible = pre.accessible
        /\ AccessibleCards(pile) = AccessibleCards(prePile)
        /\ TrySeek(pile) = TrySeek(prePile)
        /\ pre.accessible > 0 => SeekResults(pile) = SeekResults(prePile)
        /\ PendingCards(pile) = Append(PendingCards(prePile), arg[1])

\* add_card was given a card other than the top card, while a card was pending
C6_Witness ==
    /\ op = "add_card"
    /\ 0 < pre.accessible
    /\ pre.accessible < Len(pre.cards)
    /\ arg[1] # pre.cards[pre.accessible]

\* C7: try_seek changes nothing, so that a second call returns the same value; it
\* returns nothing when accessible = 0 and otherwise the card at the boundary,
\* which is the card seek returns.
C7_TrySeekPeeks ==
    op = "try_seek" =>
        /\ cards = pre.cards
        /\ accessible = pre.accessible
        /\ hand = pre.hand
        /\ TrySeek(pile) = ret
        /\ pre.accessible = 0 => ret = None
        /\ pre.accessible > 0 =>
             /\ ret = Some(pre.cards[pre.accessible])
             /\ SeekResults(prePile) = {ret}

\* try_seek found no card on a pile that holds cards
C7_Witness ==
    /\ op = "try_seek"
    /\ pre.accessible = 0
    /\ Len(pre.cards) > 0
    /\ ret = None

\* a try_seek reported the boundary card while a different card was pending
C7_WitnessCard ==
    /\ op = "try_seek"
    /\ 0 < pre.accessible
    /\ pre.accessible < Len(pre.cards)
    /\ pre.cards[Len(pre.cards)] # pre.cards[pre.accessible]

\* what the claim says of pop, deal_to, add_card, add_on_top, seek, try_seek and
\* shuffle: pop and deal_to take exactly the returned card, add_card and
\* add_on_top add exactly the given card, the others keep the cards
C8_Listed ==
    /\ (op = "pop" /\ ret # None) =>
         /\ Len(cards) = Len(pre.cards) - 1
         /\ BagOf(pre.cards) = BagOf(cards) (+) OneCard(ret[2])
    /\ (op = "deal_to" /\ ret = Ok) =>
         /\ Len(cards) = Len(pre.cards) - 1
         /\ \E c \in DOMAIN BagOf(pre.cards) :
              BagOf(pre.cards) = BagOf(cards) (+) OneCard(c)
    /\ op \in {"add_card", "add_on_top"} =>
         /\ Len(cards) = Len(pre.cards) + 1
         /\ BagOf(cards) = BagOf(pre.cards) (+) OneCard(arg[1])
    /\ (\/ op \in {"seek", "try_seek", "shuffle"}
        \/ op = "pop" /\ ret = None
        \/ op = "deal_to" /\ ret # Ok) =>
         /\ Len(cards) = Len(pre.cards)
         /\ BagOf(cards) = BagOf(pre.cards)

\* C8 as claimed: the total changes only by a successful pop or deal_to (one
\* less) and by add_card or add_on_top (one more); seek, try_seek and shuffle keep
\* the total and the cards.
C8_AsClaimed ==
    /\ C8_Listed
    /\ Len(cards) # Len(pre.cards) =>
         op \in {"pop", "deal_to", "add_card", "add_on_top"}

\* C8 amended: as claimed, and add_cards adds as many as it is given.
C8_TotalChanges ==
    /\ C8_Listed
    /\ op = "add_cards" =>
         /\ Len(cards) = Len(pre.cards) + Len(arg)
         /\ BagOf(cards) = BagOf(pre.cards) (+) BagOf(arg)
    /\ Len(cards) # Len(pre.cards) =>
         op \in {"pop", "deal_to", "add_card", "add_cards", "add_on_top"}

\* a pop shuffled a pile of several cards and took one
C8_Witness ==
    /\ op = "pop"
    /\ pre.accessible = 0
    /\ Len(pre.cards) > 2
    /\ ret # None

\* C9: deal_to fails with PileEmptyError exactly when the pile holds no card, as
\* pop returns nothing exactly then; failing, it leaves the pile and the hand as
\* they were; succeeding, it moves exactly one card from the pile to the hand.
C9_DealTo ==
    /\ op = "pop" => (ret = None <=> pre.cards = <<>>)
    /\ op = "deal_to" =>
         /\ ret \in {Ok, PileEmptyError}
         /\ ret = PileEmptyError <=> pre.cards = <<>>
         /\ ret = PileEmptyError =>
              /\ cards = pre.cards
              /\ accessible = pre.accessible
              /\ hand = pre.hand
         /\ ret = Ok =>
              /\ Len(cards) = Len(pre.cards) - 1
              /\ Len(hand) = Len(pre.hand) + 1
              /\ \E c \in DOMAIN BagOf(pre.cards) :
                   /\ BagOf(pre.cards) = BagOf(cards) (+) OneCard(c)
                   /\ BagOf(hand) = BagOf(pre.hand) (+) OneCard(c)

\* deal_to dealt from a pile whose cards were all pending to a hand holding a card
C9_Witness ==
    /\ op = "deal_to"
    /\ pre.accessible = 0
    /\ Len(pre.cards) > 1
    /\ Len(pre.hand) > 0
    /\ ret = Ok

\* deal_to failed on an empty pile, the hand holding a card
C9_WitnessEmpty ==
    /\ op = "deal_to"
    /\ pre.cards = <<>>
    /\ Len(pre.hand) > 0
    /\ ret = PileEmptyError

----------------------------------------------------------------------------
(* C10: the game's setup. *)

\* C10: when MacauGame::new, called with one or more names and a variant that deals
\* cards, returns, the card seek returns, which is the top_card of GameStart, is a
\* standard card and no action card under the variant.
C10_TopCardCanStart ==
    (pc = "returned" /\ Len(players) >= 1 /\ variant.initial_hand >= 1) =>
        \A r \in SeekResults(pile) :
            /\ r # None
            /\ IsStandardCard(r[2])
            /\ ~IsActionCard(variant, r[2])
            /\ source = ModRs => top_card = r

\* the same of the MacauGame::new of macau.rs alone, which pops back
C10_InMacauRs ==
    (source = MacauRs /\ pc = "returned") =>
        \A r \in SeekResults(pile) : r # None /\ CanStartGame(variant, r[2])

----------------------------------------------------------------------------
(* C11, C12, C15: what MacauGame::new does and leaves behind. *)

\* C11: MacauGame::new, called with one or more names, completes normally under
\* any variant: dealing never aborts for lack of cards and inspecting the top
\* card never aborts on an empty pile.
C11_NewCompletes ==
    Len(players) >= 1 => pc # "panicked"

\* C12: when MacauGame::new (macau/mod.rs) has returned, every player of the game
\* has received exactly one GameStart event, with the roster and the top card.
C12_EveryPlayerGetsGameStart ==
    (source = ModRs /\ pc = "returned" /\ Len(players) >= 1) =>
        \A i \in 1..Len(players) :
            Cardinality({k \in 1..Len(delivered) :
                            /\ delivered[k].id = players[i].id
                            /\ delivered[k].event.kind = "GameStart"
                            /\ delivered[k].event.players = players
                            /\ Some(delivered[k].event.top_card) = top_card}) = 1

\* C15: the ids MacauGame::new (macau/mod.rs) gives the players are pairwise
\* distinct, so that an id names one player at most.
C15_DistinctIds ==
    source = ModRs =>
        \A i, j \in 1..Len(players) :
            i # j => players[i].id # players[j].id

----------------------------------------------------------------------------
(* The EventManager of a game that MacauGame::new has returned, under any
   sequence of subscribe, notify_common and notify_customized calls. *)

\* subscribe is taken while the manager holds fewer subscribers than this
MaxSubscribers == 2

\* the events notify_common is given: TurnStart of the first player, and
\* GameEnd for lack of players
CommonEvents(ps) ==
    {[kind |-> "GameEnd", reason |-> "NotEnoughPlayers"]}
    \cup (IF ps = <<>> THEN {} ELSE {[kind |-> "TurnStart", player |-> ps[1]]})

\* the game exists and no call has panicked
GameRuns == source = ModRs /\ pc = "returned"

\* event_manager.subscribe(player_id, handler)
DoSubscribe ==
    /\ GameRuns
    /\ Len(subscribers) < MaxSubscribers
    /\ \E player_id \in Ids, panics \in BOOLEAN :
        /\ subscribers' = Subscribe(subscribers, player_id, panics)
        /\ Called("subscribe", <<player_id>>, Unit)
    /\ UNCHANGED <<cards, accessible, hand>>
    /\ UNCHANGED <<source, variant, players, delivered, loop, top_card, pc, gen>>

\* event_manager.notify_common(&game, &event)
DoNotifyCommon ==
    /\ GameRuns
    /\ \E event \in CommonEvents(players) :
        LET sent == NotifyCommon(subscribers, event)
        IN  /\ delivered' = sent.delivered
            /\ pc' = IF sent.panicked THEN "panicked" ELSE pc
            /\ Called("notify_common", <<event>>, Unit)
    /\ UNCHANGED <<cards, accessible, hand>>
    /\ UNCHANGED <<source, variant, players, subscribers, loop, top_card, gen>>

\* event_manager.notify_customized(&game, |game, id| GameStart { ... }), the
\* closure being the one MacauGame::new passes
DoNotifyCustomized ==
    /\ GameRuns
    /\ LET sent == NotifyCustomizedGameStart(subscribers, players, top_card[2])
       IN  /\ delivered' = sent.delivered
           /\ pc' = IF sent.panicked THEN "panicked" ELSE pc
           /\ Called("notify_customized", <<>>, Unit)
    /\ UNCHANGED <<cards, accessible, hand>>
    /\ UNCHANGED <<source, variant, players, subscribers, loop, top_card, gen>>

\* the game is one of macau/mod.rs, the file that has the event manager; its
\* variant is the default one but for initial_hand
EventsInit ==
    /\ GameInit
    /\ source = ModRs
    /\ variant.war_king_of_clubs = DefaultVariant.war_king_of_clubs

EventsNext ==
    \/ DealCard
    \/ NextPlayer
    \/ SeekTopCard
    \/ NotifyGameStart
    \/ DoSubscribe
    \/ DoNotifyCommon
    \/ DoNotifyCustomized

SpecEvents == EventsInit /\ [][EventsNext]_vars

----------------------------------------------------------------------------
(* C13, C14, C16, C17: what the subscribers of a game are told. *)

\* the cards of a hand
CardsOf(h) == {h[i] : i \in 1..Len(h)}

\* C13: notify_customized building GameStart gives every handler the event built
\* for the id it is registered under: for any two players A and B of the game, a
\* handler registered under A's id is given your_cards equal to A's hand, holding
\* no card that only B's hand holds.
C13_YourCardsAreYours ==
    (op = "notify_customized") =>
        \A k \in 1..Len(delivered) :
            /\ delivered[k].id = subscribers[delivered[k].handler].id
            /\ delivered[k].event = GameStart(players, top_card[2], delivered[k].id).event
            /\ \A a, b \in 1..Len(players) :
                 (a # b /\ players[a].id = delivered[k].id) =>
                    /\ delivered[k].event.your_cards = players[a].hand
                    /\ CardsOf(delivered[k].event.your_cards)
                       \cap (CardsOf(players[b].hand) \ CardsOf(players[a].hand)) = {}

\* the same of the games whose players have ids of their own
C13_WhenIdsDistinct ==
    (op = "notify_customized" /\ C15_DistinctIds) =>
        \A k \in 1..Len(delivered) :
            \A a, b \in 1..Len(players) :
                 (a # b /\ players[a].id = delivered[k].id) =>
                    /\ delivered[k].event.your_cards = players[a].hand
                    /\ CardsOf(delivered[k].event.your_cards)
                       \cap (CardsOf(players[b].hand) \ CardsOf(players[a].hand)) = {}

\* the hands another player might hold instead
OtherHands == {<<>>} \cup {<<c>> : c \in GameCards}

\* C14: the GameStart event a handler registered under player A's id is given,
\* roster included, is the same in any two games that differ only in the hand of
\* another player B.
C14_NonInterference ==
    (op = "notify_customized") =>
        \A k \in 1..Len(delivered) :
            \A b \in 1..Len(players) :
                players[b].id # delivered[k].id =>
                    \A h \in OtherHands :
                        GameStart([players EXCEPT ![b].hand = h],
                                  top_card[2], delivered[k].id).event
                        = delivered[k].event

\* C16: a notify_common or notify_customized call calls every registered handler
\* exactly once, in the order of registration, handlers registered under the same
\* id included; notify_common gives every one of them the event it was given.
C16_EveryHandlerOnceInOrder ==
    (op \in {"notify_common", "notify_customized"} /\ Len(players) >= 1) =>
        /\ Len(delivered) = Len(subscribers)
        /\ \A k \in 1..Len(delivered) :
             /\ delivered[k].handler = k
             /\ delivered[k].id = subscribers[k].id
             /\ op = "notify_common" => delivered[k].event = arg[1]

\* the same of the calls that did not panic
C16_WhenNothingPanics ==
    (op \in {"notify_common", "notify_customized"} /\ pc # "panicked") =>
        /\ Len(delivered) = Len(subscribers)
        /\ \A k \in 1..Len(delivered) :
             /\ delivered[k].handler = k
             /\ delivered[k].id = subscribers[k].id
             /\ op = "notify_common" => delivered[k].event = arg[1]

\* C17: in a notify call no handler is skipped because an earlier handler, or
\* the closure building the event of an earlier subscriber, failed: the handlers
\* registered after it are called all the same.
C17_NoHandlerSkipped ==
    (op \in {"notify_common", "notify_customized"} /\ Len(players) >= 1) =>
        \A i, j \in 1..Len(subscribers) :
            (i < j
             /\ \/ subscribers[i].panics
                \/ op = "notify_customized"
                   /\ GetPlayerById(players, subscribers[i].id) = None) =>
                \E k \in 1..Len(delivered) : delivered[k].handler = j

----------------------------------------------------------------------------
(* generate_n_decks and generate_deck, called with any n and jokers. *)

\* generate_n_decks is given at most this many decks
MaxDecks == 5
\* and at most this many jokers
MaxJokers == 6

DeckInit ==
    /\ \E n \in 0..MaxDecks, jokers \in 0..MaxJokers :
        gen = [n |-> n, jokers |-> jokers, fn |-> "none",
               out |-> [panicked |-> FALSE, cards |-> <<>>]]
    /\ cards = <<>>
    /\ accessible = 0
    /\ hand = <<>>
    /\ op = "new"
    /\ arg = <<>>
    /\ ret = Unit
    /\ pre = [cards |-> cards, accessible |-> accessible, hand |-> hand]
    /\ NoGame

\* generate_n_decks(n, jokers)
DoGenerateNDecks ==
    /\ gen' = [gen EXCEPT !.fn = "generate_n_decks",
                          !.out = GenerateNDecks(gen.n, gen.jokers)]
    /\ UNCHANGED <<pileVars, gameVars>>

\* generate_deck(jokers)
DoGenerateDeck ==
    /\ gen' = [gen EXCEPT !.fn = "generate_deck",
                          !.out = GenerateDeck(gen.jokers)]
    /\ UNCHANGED <<pileVars, gameVars>>

DeckNext ==
    \/ DoGenerateNDecks
    \/ DoGenerateDeck

SpecDeck == DeckInit /\ [][DeckNext]_vars

----------------------------------------------------------------------------
(* C18, C19, C20: the generated deck. *)

\* how many times a card occurs in a sequence of cards
Count(cs, card) == Cardinality({i \in 1..Len(cs) : cs[i] = card})

\* the card at place i (from 1) of the 52 suit-rank combinations, the suits in
\* the order of their numbers and within a suit the ranks from ace to king
Combination(i) == NewCard((i - 1) \div 13, ((i - 1) % 13) + 1)

\* generate_n_decks returned
Generated == gen.fn = "generate_n_decks" /\ ~gen.out.panicked

\* C18 as claimed: generate_n_decks(n, j) with j in 0..3 produces exactly 52n + j
\* cards: n repetitions of the 52 combinations in a fixed suit-major order,
\* followed by the first j of the red, black and white jokers.
C18_AsClaimed ==
    (gen.fn = "generate_n_decks" /\ gen.jokers <= 3) =>
        /\ ~gen.out.panicked
        /\ Len(gen.out.cards) = 52 * gen.n + gen.jokers
        /\ \A d \in 0..(gen.n - 1), i \in 1..52 :
             gen.out.cards[52 * d + i] = Combination(i)
        /\ \A k \in 1..gen.jokers :
             gen.out.cards[52 * gen.n + k] = NewJoker(k)

\* C18: generate_n_decks(n, j) with j in 0..3 produces exactly n * (52 + j)
\* cards: n repetitions of the 52 combinations in suit-major order (spades,
\* hearts, diamonds, clubs; ace to king) followed by the first j of the red,
\* black and white jokers, the jokers being repeated with every deck.
C18_JokersWithEveryDeck ==
    (gen.fn = "generate_n_decks" /\ gen.jokers <= 3) =>
        /\ ~gen.out.panicked
        /\ Len(gen.out.cards) = gen.n * (52 + gen.jokers)
        /\ \A d \in 0..(gen.n - 1) :
             /\ \A i \in 1..52 :
                  gen.out.cards[(52 + gen.jokers) * d + i] = Combination(i)
             /\ \A k \in 1..gen.jokers :
                  gen.out.cards[(52 + gen.jokers) * d + 52 + k] = NewJoker(k)

\* two decks or more were generated with a joker or more
C18_Witness ==
    /\ Generated
    /\ gen.n >= 2
    /\ gen.jokers >= 1
    /\ Len(gen.out.cards) > 52 * gen.n + gen.jokers

\* generate_n_decks(2, 2) returned
TwoDecksTwoJokers == Generated /\ gen.n = 2 /\ gen.jokers = 2

\* C19 as claimed: generate_n_decks(2, 2) yields 108 cards, with exactly 4 of each
\* (suit, rank) pair, exactly 1 red joker, exactly 1 black joker and no white one.
C19_AsClaimed ==
    (gen.fn = "generate_n_decks" /\ gen.n = 2 /\ gen.jokers = 2) =>
        /\ ~gen.out.panicked
        /\ Len(gen.out.cards) = 108
        /\ \A suit \in 0..3, rank \in 1..13 :
             Count(gen.out.cards, NewCard(suit, rank)) = 4
        /\ Count(gen.out.cards, NewJoker(Red)) = 1
        /\ Count(gen.out.cards, NewJoker(Black)) = 1
        /\ Count(gen.out.cards, NewJoker(White)) = 0

\* C19: generate_n_decks(2, 2) yields 108 cards, with exactly 2 of each
\* (suit, rank) pair, exactly 2 red jokers, exactly 2 black jokers and no white
\* one.
C19_TwoOfEach ==
    (gen.fn = "generate_n_decks" /\ gen.n = 2 /\ gen.jokers = 2) =>
        /\ ~gen.out.panicked
        /\ Len(gen.out.cards) = 108
        /\ \A suit \in 0..3, rank \in 1..13 :
             Count(gen.out.cards, NewCard(suit, rank)) = 2
        /\ Count(gen.out.cards, NewJoker(Red)) = 2
        /\ Count(gen.out.cards, NewJoker(Black)) = 2
        /\ Count(gen.out.cards, NewJoker(White)) = 0

C19_Witness ==
    /\ TwoDecksTwoJokers
    /\ Len(gen.out.cards) = 108

\* C20: called with more than three jokers, generate_n_decks aborts before it
\* produces any card and returns no deck, whatever n is; so does generate_deck.
C20_TooManyJokersRejected ==
    (gen.fn # "none" /\ gen.jokers > 3) =>
        /\ gen.out.panicked
        /\ gen.out.cards = <<>>

\* generate_n_decks was called for a deck or more with more than three jokers
C20_Witness ==
    /\ gen.fn = "generate_n_decks"
    /\ gen.n >= 1
    /\ gen.jokers > 3
    /\ gen.out.panicked

----------------------------------------------------------------------------
(* MacauVariant::is_action_card, get_war_value and is_war_card, called with any
   card under any variant. *)

\* the war value of a king (a u8) is at most this, but in the default variant
MaxWarKing == 1

\* the 52 standard cards and the three jokers
AllCards ==
    {NewCard(suit, rank) : suit \in {Spades, Hearts, Diamonds, Clubs}, rank \in Ace..King}
    \cup {NewJoker(color) : color \in {Red, Black, White}}

\* the variants the functions are called under: the default one, and the
\* default one with any flags for the queens and small values for the kings
CardVariants ==
    {DefaultVariant}
    \cup {[DefaultVariant EXCEPT !.war_king_of_spades = ks,
                                 !.war_king_of_hearts = kh,
                                 !.war_king_of_diamonds = kd,
                                 !.war_king_of_clubs = kc,
                                 !.queen_of_spades_on_everything = q[1],
                                 !.queen_of_hearts_on_everything = q[2],
                                 !.queen_of_diamonds_on_everything = q[3],
                                 !.queen_of_clubs_on_everything = q[4]] :
            ks \in 0..MaxWarKing, kh \in 0..MaxWarKing,
            kd \in 0..MaxWarKing, kc \in 0..MaxWarKing,
            q \in [1..4 -> BOOLEAN]}

\* no pile is in use
NoPile ==
    /\ cards = <<>>
    /\ accessible = 0
    /\ hand = <<>>
    /\ pre = [cards |-> <<>>, accessible |-> 0, hand |-> <<>>]

\* a variant and a card, no game
VariantInit ==
    /\ variant \in CardVariants
    /\ \E card \in AllCards : arg = <<card>>
    /\ op = "new"
    /\ ret = Unit
    /\ NoPile
    /\ source = "none"
    /\ players = <<>>
    /\ subscribers = EventManagerNew
    /\ delivered = <<>>
    /\ loop = [player |-> 1, dealt |-> 0]
    /\ top_card = None
    /\ pc = "none"
    /\ NoDeckCall

\* what a call of a function of the variant leaves
Answered(name, returned) ==
    /\ op' = name
    /\ ret' = returned
    /\ UNCHANGED <<cards, accessible, hand, arg, pre, gameVars, deckVars>>

\* variant.is_action_card(card)
DoIsActionCard == Answered("is_action_card", IsActionCard(variant, arg[1]))

\* variant.get_war_value(card)
DoGetWarValue == Answered("get_war_value", GetWarValue(variant, arg[1]))

\* variant.is_war_card(card)
DoIsWarCard == Answered("is_war_card", IsWarCard(variant, arg[1]))

VariantNext ==
    \/ DoIsActionCard
    \/ DoGetWarValue
    \/ DoIsWarCard

SpecVariant == VariantInit /\ [][VariantNext]_vars

----------------------------------------------------------------------------
(* C21, C22: action cards and war cards. *)

\* the flag of the variant that makes the queen of a suit playable on everything
QueenOnEverything(v, suit) ==
    IF suit = Spades THEN v.queen_of_spades_on_everything
    ELSE IF suit = Hearts THEN v.queen_of_hearts_on_everything
    ELSE IF suit = Diamonds THEN v.queen_of_diamonds_on_everything
    ELSE v.queen_of_clubs_on_everything

\* the war value the variant configures for the king of a suit
WarKingOf(v, suit) ==
    IF suit = Spades THEN v.war_king_of_spades
    ELSE IF suit = Hearts THEN v.war_king_of_hearts
    ELSE IF suit = Diamonds THEN v.war_king_of_diamonds
    ELSE v.war_king_of_clubs

\* the card the function was called with: its low and high four bits
askedLow == arg[1] % 16
askedHigh == arg[1] \div 16

\* C21: is_action_card is true for an ace, two, three, four and jack of any suit
\* and for every joker, false for a five to a ten, the suit's queen-on-everything
\* flag for a queen, and for a king true exactly when is_war_card is true; under
\* the default variant the king and the queen of spades are action cards, the
\* king of clubs and the queen of diamonds are not.
C21_ActionCards ==
    (op = "is_action_card") =>
        /\ askedLow \in {Ace, Two, Three, Four, Jack} => ret = TRUE
        /\ askedLow = 15 => ret = TRUE
        /\ askedLow \in Five..Ten => ret = FALSE
        /\ askedLow = Queen => ret = QueenOnEverything(variant, askedHigh)
        /\ askedLow = King => ret = IsWarCard(variant, arg[1])
        /\ variant = DefaultVariant =>
             /\ arg[1] \in {NewCard(Spades, King), NewCard(Spades, Queen)} => ret = TRUE
             /\ arg[1] \in {NewCard(Clubs, King), NewCard(Diamonds, Queen)} => ret = FALSE

\* is_action_card answered for the king of clubs under the default variant
C21_Witness ==
    /\ op = "is_action_card"
    /\ variant = DefaultVariant
    /\ arg[1] = NewCard(Clubs, King)
    /\ ret = FALSE

\* C22: get_war_value returns 2 for a two, 3 for a three, the value configured
\* for the suit for a king and 0 for every other card, jokers included;
\* is_war_card is true exactly when get_war_value is above 0, so that a king
\* whose configured value is 0 is no war card.
C22_WarValues ==
    /\ (op = "get_war_value") =>
        ret = IF askedLow = Two THEN 2
              ELSE IF askedLow = Three THEN 3
              ELSE IF askedLow = King THEN WarKingOf(variant, askedHigh)
              ELSE 0
    /\ (op = "is_war_card") =>
        /\ ret = (GetWarValue(variant, arg[1]) > 0)
        /\ ret = \/ askedLow \in {Two, Three}
                 \/ askedLow = King /\ WarKingOf(variant, askedHigh) > 0

\* is_war_card answered for a king whose configured value is 0, another king
\* having a value above 0
C22_Witness ==
    /\ op = "is_war_card"
    /\ askedLow = King
    /\ askedHigh = Clubs
    /\ variant.war_king_of_clubs = 0
    /\ variant.war_king_of_diamonds > 0
    /\ ret = FALSE

----------------------------------------------------------------------------
(* SortedCard::cmp, called with any two cards. *)

\* two cards, no game
SortedInit ==
    /\ \E a \in AllCards, b \in AllCards : arg = <<a, b>>
    /\ variant = DefaultVariant
    /\ op = "new"
    /\ ret = Unit
    /\ NoPile
    /\ source = "none"
    /\ players = <<>>
    /\ subscribers = EventManagerNew
    /\ delivered = <<>>
    /\ loop = [player |-> 1, dealt |-> 0]
    /\ top_card = None
    /\ pc = "none"
    /\ NoDeckCall

\* SortedCard(a).cmp(&SortedCard(b))
DoCmp ==
    /\ op' = "cmp"
    /\ ret' = SortedCardCmp(arg[1], arg[2])
    /\ UNCHANGED <<cards, accessible, hand, arg, pre, gameVars, deckVars>>

SortedNext == DoCmp

SpecSorted == SortedInit /\ [][SortedNext]_vars

----------------------------------------------------------------------------
(* C23: the order of SortedCard. *)

\* the place of a card in the order of SortedCard's documentation: clubs,
\* diamonds, hearts, spades, each from ace to king, then the red, the black and
\* the white joker
DocumentedPlace(c) ==
    IF IsJoker(c)
        THEN 64 + (c \div 16)
        ELSE (IF c \div 16 = Clubs THEN 0
              ELSE IF c \div 16 = Diamonds THEN 16
              ELSE IF c \div 16 = Hearts THEN 32
              ELSE 48) + (c % 16)

\* the place of a card in the order of the suits' numbers: spades, hearts,
\* diamonds, clubs, each from ace to king, then the red, the black and the
\* white joker
PlaceBySuitNumber(c) ==
    IF IsJoker(c) THEN 64 + (c \div 16) ELSE 16 * (c \div 16) + (c % 16)

\* C23: SortedCard's comparison is a total order of the 55 cards in which the
\* standard cards come first, by suit as clubs < diamonds < hearts < spades and
\* within a suit by rank from the ace, the lowest, to the king; every joker comes
\* after every standard card, and the jokers are ordered red < black < white.
C23_DocumentedOrder ==
    (op = "cmp") =>
        /\ ret = CmpInt(DocumentedPlace(arg[1]), DocumentedPlace(arg[2]))
        /\ (ret = "Equal") = (arg[1] = arg[2])
        /\ (ret = "Less") = (SortedCardCmp(arg[2], arg[1]) = "Greater")
        /\ \A c \in AllCards :
             (ret = "Less" /\ SortedCardCmp(arg[2], c) = "Less") =>
                SortedCardCmp(arg[1], c) = "Less"

\* the same with the suits in the order of their numbers, spades < hearts <
\* diamonds < clubs
C23_OrderBySuitNumber ==
    (op = "cmp") =>
        /\ ret = CmpInt(PlaceBySuitNumber(arg[1]), PlaceBySuitNumber(arg[2]))
        /\ (ret = "Equal") = (arg[1] = arg[2])
        /\ (ret = "Less") = (SortedCardCmp(arg[2], arg[1]) = "Greater")
        /\ \A c \in AllCards :
             (ret = "Less" /\ SortedCardCmp(arg[2], c) = "Less") =>
                SortedCardCmp(arg[1], c) = "Less"

----------------------------------------------------------------------------
(* C24, C25: the cards of the game through MacauGame::new. *)

\* no operation of the pile has been called yet
PileUntouched == op = "new"

\* C24: in MacauGame::new the generated deck is shuffled before the first card
\* is dealt: the pile is built with accessible = 0 and, until an operation of the
\* pile is called, no hand holds a card and there is no top card; the first pop
\* shuffles the whole deck, so that it can deal any card of it and leaves every
\* remaining card accessible.
C24_ShuffledBeforeFirstDeal ==
    /\ PileUntouched =>
        /\ accessible = 0
        /\ cards = GameDeck
        /\ \A i \in 1..Len(players) : players[i].hand = <<>>
        /\ top_card = None
    /\ (PileUntouched /\ pc = "deal" /\ loop.player <= Len(players)
        /\ variant.initial_hand >= 1) =>
        PopResults(pile) = {Some(c) : c \in GameCards}
    /\ (op = "pop" /\ Len(pre.cards) = Len(GameDeck)) =>
        /\ pre.accessible = 0
        /\ ret # None
        /\ accessible = Len(cards)
        /\ BagOf(cards \o <<ret[2]>>) = BagOf(GameDeck)

\* the first card was dealt, out of the whole deck
C24_Witness ==
    /\ op = "pop"
    /\ Len(pre.cards) = Len(GameDeck)
    /\ pre.accessible = 0
    /\ ret # None
    /\ players[1].hand = <<ret[2]>>

\* generate_deck(3) is the 52 standard cards and the 3 jokers, each once, and
\* the cards the game is played with are cards of it
FullDeckHoldsEveryCardOnce ==
    /\ ~GenerateDeck(3).panicked
    /\ Len(GenerateDeck(3).cards) = 55
    /\ \A c \in AllCards : Count(GenerateDeck(3).cards, c) = 1
    /\ Cardinality({c \in AllCards : IsStandardCard(c)}) = 52
    /\ Cardinality({c \in AllCards : IsJoker(c)}) = 3
    /\ \A c \in GameCards : c \in AllCards

RECURSIVE HandsOf(_)
\* the cards of the hands of the players, one hand after the other
HandsOf(ps) == IF ps = <<>> THEN <<>> ELSE ps[1].hand \o HandsOf(Tail(ps))

\* C25: cards are conserved through MacauGame::new. When it returns every player
\* holds exactly variant.initial_hand cards; the hands are dealt player by player
\* in the order of the players; the cards of the pile together with those of the
\* hands are exactly the generated deck (52 standard cards and 3 jokers, each
\* once), none lost or duplicated; a card rejected as top card stays in the pile.
C25_CardsConserved ==
    /\ pc = "returned" =>
        \A i \in 1..Len(players) : Len(players[i].hand) = variant.initial_hand
    /\ pc = "deal" =>
        \A i \in 1..Len(players) :
            Len(players[i].hand) = IF i < loop.player THEN variant.initial_hand
                                   ELSE IF i = loop.player THEN loop.dealt
                                   ELSE 0
    /\ BagOf(cards \o HandsOf(players)) = BagOf(GameDeck)
    /\ op = "pop_and_return" =>
        /\ ret # None
        /\ BagOf(cards) = BagOf(pre.cards)
        /\ \E i \in (accessible + 1)..Len(cards) : cards[i] = ret[2]
    /\ FullDeckHoldsEveryCardOnce

\* MacauGame::new of macau.rs returned a game of two players with cards in
\* their hands, having rejected a top card, which lies in the pile's pending
\* region
C25_Witness ==
    /\ pc = "returned"
    /\ source = MacauRs
    /\ Len(players) = 2
    /\ variant.initial_hand = 1
    /\ accessible < Len(cards)

\* MacauGame::new of macau/mod.rs returned a game of two players with two
\* cards each
C25_WitnessModRs ==
    /\ pc = "returned"
    /\ source = ModRs
    /\ Len(players) = 2
    /\ variant.initial_hand = 2
    /\ Len(cards) = Len(GameDeck) - 4

====
